---- MODULE Spec2Model ----
(***************************************************************************)
(* ChatMind backend: the chatroom/message collections, the HTTP handlers   *)
(* create_direct_chat, create_group_chat and send_message, the websocket   *)
(* endpoint and the ConnectionManager (src/main.py), over the document     *)
(* store helpers of src/database.py.                                       *)
(*                                                                         *)
(* Scheduling.  The websocket endpoint and the _safe_send tasks are        *)
(* coroutines of one asyncio event loop: they interleave only at their     *)
(* awaits.  The HTTP handlers are plain `def` functions: the framework     *)
(* runs each in a worker thread, where no event loop is running, so they   *)
(* interleave with everything at each blocking store call.  The same       *)
(* function called from a coroutine runs on the loop thread instead and    *)
(* keeps the loop busy until it returns; req[t].loop tells the two apart.  *)
(***************************************************************************)
EXTENDS Integers, Sequences, FiniteSets, TLC

\* ------------------------------------------------------------- bounds
MaxRooms == 2
MaxMsgs == 1
\* the longest subscriber list built when the manager is driven directly
MaxSubs == 2

Threads == {"t1", "t2"}
Conns == {"c1", "c2"}
Users == {"u1", "u2"}
Senders == {"u1"}
Contents == {"hi"}
Texts == {"ping"}
\* the limit query parameter of GET /messages/{room_id} (any integer is accepted)
Limits == {-1, 0, 1, 2, 201}
\* min(limit, 200)
HardMax == 200

\* ------------------------------------------------------- identifiers
\* An identifier string as a client presents it: <<"hex", n>> is the 24-digit
\* hexadecimal rendering of ObjectId n, <<"bad", 0>> is a string bson rejects.
InvalidId == 0
BadStr == <<"bad", 0>>
str(n) == <<"hex", n>>
IdStrs == {str(1), str(2), BadStr}
\* the room ids the clients open their sockets with: c1 on room 1, c2 on either
WsRooms(c) == IF c = "c1" THEN {str(1)} ELSE {str(1), str(2)}

\* a parse that falls back to an id instead of raising
oid_lenient(s) == IF s[1] = "hex" THEN s[2] ELSE 1

\* oid(): ObjectId(id_str), or the HTTP 400 of the except branch (InvalidId).
oid(s) == IF s[1] = "hex" THEN s[2] ELSE InvalidId

\* Optional[List[str]] = None
None == <<"None">>
MemberLists == {<<>>, <<"u1", "u2">>}
AdminLists == {None, <<"u1">>}

\* ---------------------------------------------------------- sequences
Range(s) == {s[i] : i \in DOMAIN s}

\* list.remove(x): drops the first occurrence.
Remove(s, x) ==
    LET i == CHOOSE j \in DOMAIN s : s[j] = x /\ \A k \in 1..(j - 1) : s[k] # x
    IN  SubSeq(s, 1, i - 1) \o SubSeq(s, i + 1, Len(s))

\* --------------------------------------------------------------- state
VARIABLES
    chatroom,            \* db.chatroom, in insertion (natural) order
    message,             \* db.message, in insertion order
    nextId,              \* the next ObjectId the store generates
    now,                 \* the last value datetime.utcnow() returned
    active_connections,  \* manager.active_connections: room_id -> list of websockets
    ws,                  \* per websocket: the endpoint coroutine and its transport
    tasks,               \* _safe_send tasks created and not yet finished
    attempts,            \* finished _safe_send tasks, with the outcome of the write
    req,                 \* per handler thread: the HTTP request it is running
    done                 \* the last HTTP request that finished, with its response

vars == <<chatroom, message, nextId, now, active_connections, ws, tasks, attempts, req, done>>

IdleReq ==
    [op |-> "none", pc |-> "idle", loop |-> FALSE, a |-> "", b |-> "",
     room |-> BadStr, members |-> <<>>, admins |-> None,
     msg_id |-> InvalidId, limit |-> 0, status |-> 0, ret |-> BadStr, messages |-> <<>>]

NewWs == [pc |-> "new", room |-> BadStr, peer |-> "open", text |-> ""]

Init ==
    /\ chatroom = <<>>
    /\ message = <<>>
    /\ nextId = 1
    /\ now = 0
    /\ active_connections = <<>>
    /\ ws = [c \in Conns |-> NewWs]
    /\ tasks = {}
    /\ attempts = {}
    /\ req = [t \in Threads |-> IdleReq]
    /\ done = IdleReq

\* ------------------------------------------------------ document store
\* datetime.utcnow(), as a logical clock: every read is later than the last.
utcnow == {now + 1}

\* create_document(): stamps created_at/updated_at and inserts; the new
\* document is appended to the collection.
create_document(col, data, id, t) ==
    Append(col, data @@ [_id |-> id, created_at |-> t, updated_at |-> t])

\* find_one(filter): the first matching document in natural order, 0 for None;
\* hit holds the positions of the matching documents.
first(hit) == IF hit = {} THEN 0 ELSE CHOOSE j \in hit : \A k \in hit : j <= k

\* update_document(): $set of update_dict plus updated_at on the first
\* document matching {"_id": id}; main.py only ever passes update_dict = {}.
update_document(col, id, t) ==
    LET i == first({j \in DOMAIN col : col[j]._id = id})
    IN  IF i = 0 THEN col ELSE [col EXCEPT ![i].updated_at = t]

\* a lookup that drops its filter: any document matches
find_room_unfiltered(id) == first(DOMAIN chatroom)

\* db.chatroom.find_one({"_id": id})
find_room(id) == first({i \in DOMAIN chatroom : chatroom[i]._id = id})

\* the members compared as the list [uid1, uid2] instead of with $all
DirectFilterOrdered(d, uid1, uid2) ==
    d.type = "direct" /\ d.members = <<uid1, uid2>>

\* db.chatroom.find_one({"type": "direct", "members": {"$all": [uid1, uid2]}})
DirectFilter(d, uid1, uid2) ==
    d.type = "direct" /\ {uid1, uid2} \subseteq Range(d.members)
find_direct(uid1, uid2) ==
    first({i \in DOMAIN chatroom : DirectFilter(chatroom[i], uid1, uid2)})

\* ------------------------------------------------- ConnectionManager
\* a lookup that falls back to some other room's list when the key is absent
get_any_room(ac, room_id) ==
    IF room_id \in DOMAIN ac THEN ac[room_id]
    ELSE IF DOMAIN ac = {} THEN <<>>
    ELSE ac[CHOOSE k \in DOMAIN ac : TRUE]

\* active_connections.get(room_id, [])
get(ac, room_id) == IF room_id \in DOMAIN ac THEN ac[room_id] ELSE <<>>

\* connect(): after accept(), setdefault(room_id, []).append(websocket)
connect(ac, room_id, c) ==
    [k \in DOMAIN ac \cup {room_id} |-> IF k = room_id THEN Append(get(ac, k), c) ELSE ac[k]]

\* an unsubscribe that leaves the emptied list under its key
disconnect_keep_entry(ac, room_id, c) ==
    LET conns == get(ac, room_id)
        left == IF c \in Range(conns) THEN Remove(conns, c) ELSE conns
    IN  IF room_id \in DOMAIN ac THEN [ac EXCEPT ![room_id] = left] ELSE ac

\* an unsubscribe that deletes the room's key when the websocket is not listed
disconnect_drop_room(ac, room_id, c) ==
    LET conns == get(ac, room_id)
        left == IF c \in Range(conns) THEN Remove(conns, c) ELSE <<>>
    IN  IF left = <<>> /\ room_id \in DOMAIN ac
          THEN [k \in DOMAIN ac \ {room_id} |-> ac[k]]
          ELSE IF room_id \in DOMAIN ac THEN [ac EXCEPT ![room_id] = left] ELSE ac

\* disconnect(): remove the websocket if listed; delete the key once its list is empty
disconnect(ac, room_id, c) ==
    LET conns == get(ac, room_id)
        left == IF c \in Range(conns) THEN Remove(conns, c) ELSE conns
    IN  IF left = <<>> /\ room_id \in DOMAIN ac
          THEN [k \in DOMAIN ac \ {room_id} |-> ac[k]]
          ELSE IF room_id \in DOMAIN ac THEN [ac EXCEPT ![room_id] = left] ELSE ac

\* the envelope send_message hands to broadcast_to_room
Envelope(msg_id, room_id, sender_id, content) ==
    [type |-> "message",
     payload |-> [id |-> msg_id, room_id |-> room_id,
                  sender_id |-> sender_id, content |-> content]]

\* broadcast_to_room() on the loop thread: one _safe_send task per entry of the
\* snapshot list (k is the entry's position, so a websocket listed twice gets two).
NewTasks(conns, data) ==
    {[ws |-> conns[k], k |-> k, data |-> data, st |-> "scheduled"] : k \in DOMAIN conns}

\* ---------------------------------------------------------- scheduling
Busy(t) == req[t].pc # "idle"
\* the event loop thread is free: no handler is running on it
LoopFree == \A t \in Threads : ~(Busy(t) /\ req[t].loop)

\* the handler returns (status 200, with ret) or raises (400, 404, 500): the
\* worker is free again and the response is the last one delivered
Finish(t, r, status, ret) ==
    /\ req' = [req EXCEPT ![t] = IdleReq]
    /\ done' = [r EXCEPT !.pc = "done", !.loop = FALSE, !.status = status, !.ret = ret]

\* inserts that handlers already past their lookup are still going to make
PendingRooms == Cardinality({t \in Threads : req[t].pc = "insert"})
PendingMsgs == Cardinality({t \in Threads : req[t].pc = "persist"})

\* ------------------------------------------------- POST /chats/direct
\* create_direct_chat, up to and including the find_one lookup
create_direct_chat_find(t, uid1, uid2) ==
    /\ ~Busy(t)
    /\ LET r == [IdleReq EXCEPT !.op = "direct", !.a = uid1, !.b = uid2]
           existing == find_direct(uid1, uid2)
       IN  IF uid1 = uid2
             THEN Finish(t, r, 400, BadStr)
           ELSE IF existing # 0
             THEN Finish(t, r, 200, str(chatroom[existing]._id))
           ELSE /\ Len(chatroom) + PendingRooms < MaxRooms
                /\ req' = [req EXCEPT ![t] = [r EXCEPT !.pc = "insert"]]
                /\ UNCHANGED done
    /\ UNCHANGED <<chatroom, message, nextId, now, active_connections, ws, tasks, attempts>>

\* create_direct_chat, the create_document of the new room and the return
create_direct_chat_insert(t) ==
    /\ req[t].pc = "insert"
    /\ \/ \E ts \in utcnow :
            /\ chatroom' = create_document(chatroom,
                    [name |-> "None", type |-> "direct",
                     members |-> <<req[t].a, req[t].b>>, admins |-> <<>>],
                    nextId, ts)
            /\ nextId' = nextId + 1
            /\ now' = ts
            /\ Finish(t, req[t], 200, str(nextId))
       \/ /\ Finish(t, req[t], 500, BadStr)
          /\ UNCHANGED <<chatroom, nextId, now>>
    /\ UNCHANGED <<message, active_connections, ws, tasks, attempts>>

\* -------------------------------------------------- POST /chats/group
\* a default that makes the first member the admin
or_first_member(x) == IF x = None \/ x = <<>> THEN <<"u1">> ELSE x

\* payload.admin_ids or []
or_empty(x) == IF x = None \/ x = <<>> THEN <<>> ELSE x

create_group_chat(t, member_ids, admin_ids) ==
    /\ ~Busy(t)
    /\ LET r == [IdleReq EXCEPT !.op = "group", !.members = member_ids, !.admins = admin_ids]
       IN  IF member_ids = <<>>
             THEN /\ Finish(t, r, 400, BadStr)
                  /\ UNCHANGED <<chatroom, nextId, now>>
             ELSE /\ Len(chatroom) + PendingRooms < MaxRooms
                  /\ \/ \E ts \in utcnow :
                          /\ chatroom' = create_document(chatroom,
                                  [name |-> "Team", type |-> "group",
                                   members |-> member_ids,
                                   admins |-> or_empty(admin_ids)],
                                  nextId, ts)
                          /\ nextId' = nextId + 1
                          /\ now' = ts
                          /\ Finish(t, r, 200, str(nextId))
                     \/ /\ Finish(t, r, 500, BadStr)
                        /\ UNCHANGED <<chatroom, nextId, now>>
    /\ UNCHANGED <<message, active_connections, ws, tasks, attempts>>

\* ------------------------------------------- GET /messages/{room_id}
Min(a, b) == IF a <= b THEN a ELSE b
Abs(n) == IF n < 0 THEN -n ELSE n

\* cursor.sort("created_at", -1) over the documents at the positions in hit:
\* the positions, newest first (documents of equal created_at, whose order the
\* store leaves open, in reverse insertion order)
RECURSIVE SortDesc(_)
SortDesc(hit) ==
    IF hit = {} THEN <<>>
    ELSE LET i == CHOOSE j \in hit : \A k \in hit :
                      \/ message[k].created_at < message[j].created_at
                      \/ message[k].created_at = message[j].created_at /\ k <= j
         IN  <<i>> \o SortDesc(hit \ {i})

\* cursor.limit(n): 0 is no limit, and a negative n asks for one batch of |n|
Limit(cur, n) == IF n = 0 THEN cur ELSE SubSeq(cur, 1, Min(Abs(n), Len(cur)))

\* list(reversed(res))
reversed(res) == [i \in 1..Len(res) |-> res[Len(res) + 1 - i]]

\* get_messages: one find on the message collection, returned oldest first
get_messages(t, room_id, limit) ==
    /\ ~Busy(t)
    /\ LET msgs == Limit(SortDesc({i \in DOMAIN message : message[i].room_id = room_id}),
                         Min(limit, HardMax))
           res == [i \in 1..Len(msgs) |->
                     [id |-> str(message[msgs[i]]._id),
                      room_id |-> message[msgs[i]].room_id,
                      sender_id |-> message[msgs[i]].sender_id,
                      content |-> message[msgs[i]].content,
                      type |-> message[msgs[i]].type,
                      created_at |-> message[msgs[i]].created_at]]
           r == [IdleReq EXCEPT !.op = "list", !.room = room_id, !.limit = limit,
                                !.messages = reversed(res)]
       IN  Finish(t, r, 200, BadStr)
    /\ UNCHANGED <<chatroom, message, nextId, now, active_connections, ws, tasks, attempts>>

\* ----------------------------------------------------- POST /messages
\* send_message, "ensure room exists": oid() and the find_one lookup
send_message_find(t, room_id, sender_id, content, loop) ==
    /\ ~Busy(t)
    /\ loop => LoopFree
    /\ LET r == [IdleReq EXCEPT !.op = "send", !.room = room_id, !.a = sender_id,
                                !.b = content, !.loop = loop]
       IN  IF oid(room_id) = InvalidId
             THEN Finish(t, r, 400, BadStr)
           ELSE IF find_room(oid(room_id)) = 0
             THEN Finish(t, r, 404, BadStr)
           ELSE /\ Len(message) + PendingMsgs < MaxMsgs
                /\ req' = [req EXCEPT ![t] = [r EXCEPT !.pc = "persist"]]
                /\ UNCHANGED done
    /\ UNCHANGED <<chatroom, message, nextId, now, active_connections, ws, tasks, attempts>>

\* create_document's failure swallowed: the handler goes on with an id that
\* was never inserted
send_message_create_unchecked(t) ==
    /\ req[t].pc = "persist"
    /\ \/ \E ts \in utcnow :
            /\ message' = create_document(message,
                    [room_id |-> req[t].room, sender_id |-> req[t].a,
                     content |-> req[t].b, type |-> "text"],
                    nextId, ts)
            /\ nextId' = nextId + 1
            /\ now' = ts
            /\ req' = [req EXCEPT ![t].pc = "touch", ![t].msg_id = nextId]
       \/ /\ req' = [req EXCEPT ![t].pc = "touch", ![t].msg_id = nextId]
          /\ UNCHANGED <<message, nextId, now>>
    /\ UNCHANGED <<chatroom, active_connections, ws, tasks, attempts, done>>

\* send_message, create_document("message", ...)
send_message_create(t) ==
    /\ req[t].pc = "persist"
    /\ \/ \E ts \in utcnow :
            /\ message' = create_document(message,
                    [room_id |-> req[t].room, sender_id |-> req[t].a,
                     content |-> req[t].b, type |-> "text"],
                    nextId, ts)
            /\ nextId' = nextId + 1
            /\ now' = ts
            /\ req' = [req EXCEPT ![t].pc = "touch", ![t].msg_id = nextId]
            /\ UNCHANGED done
       \/ /\ Finish(t, req[t], 500, BadStr)
          /\ UNCHANGED <<message, nextId, now>>
    /\ UNCHANGED <<chatroom, active_connections, ws, tasks, attempts>>

\* send_message, update_document("chatroom", {"_id": oid(room_id)}, {})
send_message_update(t) ==
    /\ req[t].pc = "touch"
    /\ \/ \E ts \in utcnow :
            /\ chatroom' = update_document(chatroom, oid(req[t].room), ts)
            /\ now' = ts
            /\ req' = [req EXCEPT ![t].pc = "broadcast"]
            /\ UNCHANGED done
       \/ /\ Finish(t, req[t], 500, BadStr)
          /\ UNCHANGED <<chatroom, now>>
    /\ UNCHANGED <<message, nextId, active_connections, ws, tasks, attempts>>

\* send_message, manager.broadcast_to_room(...) and the return.
\* asyncio.create_task needs the running loop of the calling thread: on the
\* loop thread every entry of the snapshot gets its task; in a worker thread the
\* first create_task raises RuntimeError, which ends the request with HTTP 500.
send_message_broadcast(t) ==
    /\ req[t].pc = "broadcast"
    /\ LET conns == get(active_connections, req[t].room)
           data == Envelope(str(req[t].msg_id), req[t].room, req[t].a, req[t].b)
           r == req[t]
       IN  IF req[t].loop
             THEN /\ tasks' = tasks \cup NewTasks(conns, data)
                  /\ Finish(t, r, 200, str(req[t].msg_id))
           ELSE IF conns = <<>>
             THEN /\ Finish(t, r, 200, str(req[t].msg_id))
                  /\ UNCHANGED tasks
           ELSE /\ Finish(t, r, 500, BadStr)
                /\ UNCHANGED tasks
    /\ UNCHANGED <<chatroom, message, nextId, now, active_connections, ws, attempts>>

\* ------------------------------------------- /ws/rooms/{room_id}
\* websocket_endpoint: manager.connect(room_id, websocket), entering the loop
websocket_endpoint_connect(c, room_id) ==
    /\ LoopFree
    /\ ws[c].pc = "new"
    /\ active_connections' = connect(active_connections, room_id, c)
    /\ ws' = [ws EXCEPT ![c].pc = "recv", ![c].room = room_id]
    /\ UNCHANGED <<chatroom, message, nextId, now, tasks, attempts, req, done>>

\* the client goes away (a close frame, or the connection drops)
peer_close(c) ==
    /\ ws[c].pc \in {"recv", "echo"}
    /\ ws[c].peer = "open"
    /\ ws' = [ws EXCEPT ![c].peer = "closed"]
    /\ UNCHANGED <<chatroom, message, nextId, now, active_connections, tasks, attempts, req, done>>

\* an endpoint that also relays the received text to the room's subscribers
websocket_endpoint_receive_relay(c, text) ==
    /\ LoopFree
    /\ ws[c].pc = "recv"
    /\ ws[c].peer = "open"
    /\ ws' = [ws EXCEPT ![c].pc = "echo", ![c].text = text]
    /\ tasks' = tasks \cup {[ws |-> active_connections[ws[c].room][k], k |-> k,
                             data |-> [type |-> "echo", payload |-> text], st |-> "scheduled"] :
                                k \in DOMAIN get(active_connections, ws[c].room)}
    /\ UNCHANGED <<chatroom, message, nextId, now, active_connections, attempts, req, done>>

\* receive_text() returns the client's text; the echo write begins
websocket_endpoint_receive(c, text) ==
    /\ LoopFree
    /\ ws[c].pc = "recv"
    /\ ws[c].peer = "open"
    /\ ws' = [ws EXCEPT ![c].pc = "echo", ![c].text = text]
    /\ UNCHANGED <<chatroom, message, nextId, now, active_connections, tasks, attempts, req, done>>

\* receive_text() raises WebSocketDisconnect: the except clause unregisters
websocket_endpoint_disconnect(c) ==
    /\ LoopFree
    /\ ws[c].pc = "recv"
    /\ ws[c].peer = "closed"
    /\ active_connections' = disconnect(active_connections, ws[c].room, c)
    /\ ws' = [ws EXCEPT ![c].pc = "closed"]
    /\ UNCHANGED <<chatroom, message, nextId, now, tasks, attempts, req, done>>

\* receive_text() raises anything else (a frame that is not text): no except
\* clause matches, the coroutine ends and the server drops the connection
websocket_endpoint_error(c) ==
    /\ LoopFree
    /\ ws[c].pc = "recv"
    /\ ws[c].peer = "open"
    /\ ws' = [ws EXCEPT ![c].pc = "closed", ![c].peer = "closed"]
    /\ UNCHANGED <<chatroom, message, nextId, now, active_connections, tasks, attempts, req, done>>

\* manager.send_json of the echo completes; back to receive_text()
websocket_endpoint_echo(c) ==
    /\ LoopFree
    /\ ws[c].pc = "echo"
    /\ ws[c].peer = "open"
    /\ ws' = [ws EXCEPT ![c].pc = "recv", ![c].text = ""]
    /\ UNCHANGED <<chatroom, message, nextId, now, active_connections, tasks, attempts, req, done>>

\* manager.send_json of the echo raises on the closed transport: as
\* WebSocketDisconnect (caught, unregisters) or as another exception
\* (not caught), whichever the transport layer raises
websocket_endpoint_echo_fail(c) ==
    /\ LoopFree
    /\ ws[c].pc = "echo"
    /\ ws[c].peer = "closed"
    /\ \/ active_connections' = disconnect(active_connections, ws[c].room, c)
       \/ UNCHANGED active_connections
    /\ ws' = [ws EXCEPT ![c].pc = "closed"]
    /\ UNCHANGED <<chatroom, message, nextId, now, tasks, attempts, req, done>>

\* ------------------------------------------------------- _safe_send
Attempt(task, ok) == [ws |-> task.ws, k |-> task.k, data |-> task.data, ok |-> ok]

\* the task starts: ws.send_json(data) begins the write, or raises at once
\* on a closed transport (swallowed by the except clause)
safe_send_begin(task) ==
    /\ LoopFree
    /\ task \in tasks
    /\ task.st = "scheduled"
    /\ IF ws[task.ws].peer = "open"
         THEN /\ tasks' = (tasks \ {task}) \cup {[task EXCEPT !.st = "sending"]}
              /\ UNCHANGED attempts
         ELSE /\ tasks' = tasks \ {task}
              /\ attempts' = attempts \cup {Attempt(task, FALSE)}
    /\ UNCHANGED <<chatroom, message, nextId, now, active_connections, ws, req, done>>

\* the write completes, or fails because the transport closed under it
\* (swallowed by the except clause)
safe_send_end(task) ==
    /\ LoopFree
    /\ task \in tasks
    /\ task.st = "sending"
    /\ tasks' = tasks \ {task}
    /\ attempts' = attempts \cup {Attempt(task, ws[task.ws].peer = "open")}
    /\ UNCHANGED <<chatroom, message, nextId, now, active_connections, ws, req, done>>

\* ------------------------------------------------- transport writes
\* the frame websocket_endpoint answers a received text with
EchoEnvelope(data) == [type |-> "echo", payload |-> data]

\* the frames whose send_json on websocket c has begun and not yet returned:
\* those of the _safe_send tasks in their await and the endpoint's echo
Writes(c) ==
    {x.data : x \in {y \in tasks : y.ws = c /\ y.st = "sending"}}
        \cup (IF ws[c].pc = "echo" THEN {EchoEnvelope(ws[c].text)} ELSE {})
\* how many such writes there are
Writing(c) ==
    Cardinality({y \in tasks : y.ws = c /\ y.st = "sending"})
        + (IF ws[c].pc = "echo" THEN 1 ELSE 0)

\* ------------------------------------------------------ specification
Next ==
    \/ \E t \in Threads, uid1 \in Users, uid2 \in Users : create_direct_chat_find(t, uid1, uid2)
    \/ \E t \in Threads : create_direct_chat_insert(t)
    \/ \E t \in Threads, m \in MemberLists, a \in AdminLists : create_group_chat(t, m, a)
    \/ \E t \in Threads, r \in IdStrs, u \in Senders, x \in Contents, l \in BOOLEAN :
           send_message_find(t, r, u, x, l)
    \/ \E t \in Threads, r \in IdStrs, n \in Limits : get_messages(t, r, n)
    \/ \E t \in Threads : send_message_create(t)
    \/ \E t \in Threads : send_message_update(t)
    \/ \E t \in Threads : send_message_broadcast(t)
    \/ \E c \in Conns : \E r \in WsRooms(c) : websocket_endpoint_connect(c, r)
    \/ \E c \in Conns : peer_close(c)
    \/ \E c \in Conns, x \in Texts : websocket_endpoint_receive(c, x)
    \/ \E c \in Conns : websocket_endpoint_disconnect(c)
    \/ \E c \in Conns : websocket_endpoint_error(c)
    \/ \E c \in Conns : websocket_endpoint_echo(c)
    \/ \E c \in Conns : websocket_endpoint_echo_fail(c)
    \/ \E task \in tasks : safe_send_begin(task)
    \/ \E task \in tasks : safe_send_end(task)

Spec == Init /\ [][Next]_vars

\* ---------------------------------------------------------------------
\* The chat around one existing room: handler thread t1 has created a group
\* room (the state create_group_chat leaves behind from Init); messages are
\* sent to it and to ids of no room, sockets open and close, deliveries run,
\* and invalid room requests arrive.
InitChat ==
    /\ chatroom = create_document(<<>>,
            [name |-> "Team", type |-> "group", members |-> <<"u1", "u2">>, admins |-> <<>>],
            1, 1)
    /\ message = <<>>
    /\ nextId = 2
    /\ now = 1
    /\ active_connections = <<>>
    /\ ws = [c \in Conns |-> NewWs]
    /\ tasks = {}
    /\ attempts = {}
    /\ req = [t \in Threads |-> IdleReq]
    /\ done = [IdleReq EXCEPT !.op = "group", !.pc = "done", !.members = <<"u1", "u2">>,
                              !.status = 200, !.ret = str(1)]

NextChat ==
    \/ \E u \in Users : create_direct_chat_find("t1", u, u)
    \/ create_group_chat("t1", <<>>, None)
    \/ \E r \in IdStrs, u \in Senders, x \in Contents, l \in BOOLEAN :
           send_message_find("t1", r, u, x, l)
    \/ send_message_create("t1")
    \/ send_message_update("t1")
    \/ send_message_broadcast("t1")
    \/ \E c \in Conns : \E r \in WsRooms(c) : websocket_endpoint_connect(c, r)
    \/ \E c \in Conns : peer_close(c)
    \/ \E c \in Conns, x \in Texts : websocket_endpoint_receive(c, x)
    \/ \E c \in Conns : websocket_endpoint_disconnect(c)
    \/ \E c \in Conns : websocket_endpoint_error(c)
    \/ \E c \in Conns : websocket_endpoint_echo(c)
    \/ \E c \in Conns : websocket_endpoint_echo_fail(c)
    \/ \E task \in tasks : safe_send_begin(task)
    \/ \E task \in tasks : safe_send_end(task)

SpecChat == InitChat /\ [][NextChat]_vars

\* ---------------------------------------------------------------------
\* Room creation by two handler threads running concurrently.
NextRooms ==
    \/ \E t \in Threads, uid1 \in Users, uid2 \in Users : create_direct_chat_find(t, uid1, uid2)
    \/ \E t \in Threads : create_direct_chat_insert(t)
    \/ \E t \in Threads, m \in MemberLists, a \in AdminLists : create_group_chat(t, m, a)

SpecRooms == Init /\ [][NextRooms]_vars

\* Room creation by one client that waits for each response before its next
\* request: a request starts only when no other is running.
NoneRunning == \A t \in Threads : ~Busy(t)

NextSeq ==
    \/ \E t \in Threads, uid1 \in Users, uid2 \in Users :
           NoneRunning /\ create_direct_chat_find(t, uid1, uid2)
    \/ \E t \in Threads : create_direct_chat_insert(t)
    \/ \E t \in Threads, m \in MemberLists, a \in AdminLists :
           NoneRunning /\ create_group_chat(t, m, a)

SpecSeq == Init /\ [][NextSeq]_vars

\* ---------------------------------------------------------------------
\* The ConnectionManager driven directly, as a caller holding the manager and
\* the websockets can drive it (all calls made on the loop thread): connect and
\* disconnect with any room and websocket in any order, and one publish whose
\* deliveries run.  done holds the last call, with status 200 for a call that
\* returned and 500 for one that raised.
Outcome(r, status) == [r EXCEPT !.pc = "done", !.status = status]

\* await manager.connect(room_id, websocket).  accept() on a transport that was
\* accepted before is the transport's business: it returns again, or it
\* raises before the append.
manager_connect(room_id, c) ==
    /\ LoopFree
    /\ LET r == [IdleReq EXCEPT !.op = "connect", !.room = room_id, !.a = c]
       IN  \/ /\ Len(get(active_connections, room_id)) < MaxSubs
              /\ active_connections' = connect(active_connections, room_id, c)
              /\ ws' = [ws EXCEPT ![c].pc = "open"]
              /\ done' = Outcome(r, 200)
           \/ /\ ws[c].pc # "new"
              /\ done' = Outcome(r, 500)
              /\ UNCHANGED <<active_connections, ws>>
    /\ UNCHANGED <<chatroom, message, nextId, now, tasks, attempts, req>>

\* manager.disconnect(room_id, websocket): both statements are guarded, nothing raises
manager_disconnect(room_id, c) ==
    /\ LoopFree
    /\ active_connections' = disconnect(active_connections, room_id, c)
    /\ done' = Outcome([IdleReq EXCEPT !.op = "disconnect", !.room = room_id, !.a = c], 200)
    /\ UNCHANGED <<chatroom, message, nextId, now, ws, tasks, attempts, req>>

\* manager.broadcast_to_room(room_id, data) on the loop thread (the one
\* publish of the scenario)
manager_broadcast_to_room(room_id) ==
    /\ LoopFree
    /\ tasks = {} /\ attempts = {}
    /\ tasks' = NewTasks(get(active_connections, room_id),
                         Envelope(str(1), room_id, "u1", "hi"))
    /\ done' = Outcome([IdleReq EXCEPT !.op = "broadcast", !.room = room_id], 200)
    /\ UNCHANGED <<chatroom, message, nextId, now, active_connections, ws, attempts, req>>

NextRegistry ==
    \/ \E c \in Conns : \E r \in WsRooms(c) : manager_connect(r, c)
    \/ \E c \in Conns, r \in IdStrs : manager_disconnect(r, c)
    \/ \E r \in IdStrs : manager_broadcast_to_room(r)
    \/ \E task \in tasks : safe_send_begin(task)
    \/ \E task \in tasks : safe_send_end(task)

SpecRegistry == Init /\ [][NextRegistry]_vars

\* ---------------------------------------------------------------------
\* The message history of the existing room: messages are sent by requests
\* running in the framework's worker threads and listed with any limit.
NextHistory ==
    \/ \E t \in Threads, r \in IdStrs, u \in Senders, x \in Contents :
           send_message_find(t, r, u, x, FALSE)
    \/ \E t \in Threads : send_message_create(t)
    \/ \E t \in Threads : send_message_update(t)
    \/ \E t \in Threads : send_message_broadcast(t)
    \/ \E t \in Threads, r \in IdStrs, n \in Limits : get_messages(t, r, n)

SpecHistory == InitChat /\ [][NextHistory]_vars

\* =====================================================================
\* Properties
\* =====================================================================
\* the websockets listed under room_id
Subscribers(ac, room_id) == Range(get(ac, room_id))
\* c is listed under some room
Registered(ac, c) == \E k \in DOMAIN ac : c \in Range(ac[k])
\* the _safe_send tasks and finished attempts for websocket c and message id
Deliveries(ts, as, c, id) ==
    {x \in ts : x.ws = c /\ x.data.payload.id = id}
        \cup {x \in as : x.ws = c /\ x.data.payload.id = id}
\* thread t's step is the publish of send_message: broadcast_to_room and the return
Publishes(t) == req[t].pc = "broadcast" /\ req'[t].pc = "idle"

\* C1: one publish(R, m) makes exactly one delivery attempt of m to each of two
\* distinct connections subscribed to R, whatever happens to the other's attempt.
C1_PublishOneAttemptEach ==
    [][\A t \in Threads : Publishes(t) =>
         \A c, d \in Subscribers(active_connections, req[t].room) :
            c # d =>
              /\ Cardinality(Deliveries(tasks', attempts', c, str(req[t].msg_id))) = 1
              /\ Cardinality(Deliveries(tasks', attempts', d, str(req[t].msg_id))) = 1]_vars

\* C2: with C1 and C2 subscribed to an existing room r, send_message(r, u, c)
\* adds exactly one document with room_id r to the message collection and has
\* the envelope {"type": "message", payload: {id, room_id r, sender_id u,
\* content c}} on its way to both C1 and C2 when it returns.
C2_SendReachesBothSubscribers ==
    [][\A t \in Threads :
         (Publishes(t) /\ Conns \subseteq Subscribers(active_connections, req[t].room)) =>
            /\ Cardinality({i \in DOMAIN message' :
                    /\ message'[i]._id = req[t].msg_id
                    /\ message'[i].room_id = req[t].room}) = 1
            /\ \A c \in Conns : \E x \in tasks' :
                    /\ x.ws = c
                    /\ x.data = Envelope(str(req[t].msg_id), req[t].room, req[t].a, req[t].b)]_vars

\* C3: send_message on an existing room returns the new message id whatever the
\* number of subscribers and whatever becomes of the deliveries: the publish
\* step always ends the request with the id, without waiting.
C3_SendReturnsMessageId ==
    [][\A t \in Threads : Publishes(t) =>
         /\ done'.op = "send"
         /\ done'.status = 200
         /\ done'.ret = str(req[t].msg_id)]_vars

\* C4: with a subscriber of room r whose client has gone, send_message(r, ...)
\* does not raise, the failed delivery is not propagated, and once the delivery
\* to the dead connection has failed it is no longer listed in the Registry.
C4_DeadSubscriberPruned ==
    [][/\ \A t \in Threads :
            (Publishes(t) /\ \E c \in Subscribers(active_connections, req[t].room) :
                                ws[c].peer = "closed")
              => done'.status = 200
       /\ \A x \in attempts' \ attempts :
            (~x.ok /\ ws[x.ws].pc = "closed") => ~Registered(active_connections', x.ws)]_vars

\* C5: once the endpoint coroutine of a connection has terminated, on whatever
\* exit path, the connection is in no room's subscriber list.
C5_TerminatedUnregistered ==
    \A c \in Conns : ws[c].pc = "closed" => ~Registered(active_connections, c)

\* the direct rooms of the chatroom collection
DirectRooms == {i \in DOMAIN chatroom : chatroom[i].type = "direct"}

\* C6: in every reachable state, also under interleaved create_direct_chat
\* calls, each direct room has exactly two distinct members and no two direct
\* rooms have the same unordered pair of members.
C6_DirectRoomInvariant ==
    /\ \A i \in DirectRooms :
          /\ Len(chatroom[i].members) = 2
          /\ chatroom[i].members[1] # chatroom[i].members[2]
    /\ \A i, j \in DirectRooms :
          Range(chatroom[i].members) = Range(chatroom[j].members) => i = j

\* a finished create_direct_chat that returned a room id
DirectOk(r) == r.op = "direct" /\ r.pc = "done" /\ r.status = 200

\* C7: for distinct users A and B, two create_direct_chat calls in sequence,
\* with the members in either order on each call, return the same room id, and
\* the second call adds no document to the chatroom collection.
C7_DirectIdempotent ==
    [][(/\ DirectOk(done) /\ DirectOk(done')
        /\ {done.a, done.b} = {done'.a, done'.b})
         => (done'.ret = done.ret /\ chatroom' = chatroom)]_vars

\* reached: B,A was asked for after A,B had made the room, and got that room
C7_Witness ==
    /\ DirectOk(done)
    /\ Cardinality(DirectRooms) = 1
    /\ \E i \in DirectRooms :
          /\ chatroom[i].members = <<done.b, done.a>>
          /\ done.ret = str(chatroom[i]._id)

\* no chatroom document has the id that the string room_id spells
NoSuchRoom(room_id) == \A i \in DOMAIN chatroom : str(chatroom[i]._id) # room_id

\* How a handler's first step shows.  A call that ends in its first step (a
\* rejection, or a lookup that answers the request) leaves every thread as it
\* was and delivers a new response; a call that goes on makes its thread busy.
AnsweredAtOnce(op) == req' = req /\ done' # done /\ done'.op = op
GoesOn(t, op) == ~Busy(t) /\ Busy(t)' /\ req'[t].op = op

\* C8 as stated: send_message with a room_id of no existing chatroom fails with
\* NotFound, leaves the message collection unchanged and makes no delivery
\* attempt, whatever connections are subscribed under that room_id.
C8_UnknownRoomNotFound ==
    [][/\ \A t \in Threads : GoesOn(t, "send") => ~NoSuchRoom(req'[t].room)
       /\ (AnsweredAtOnce("send") /\ NoSuchRoom(done'.room)) =>
            /\ done'.status = 404
            /\ UNCHANGED <<message, tasks, attempts>>]_vars

\* C8 amended: a well-formed room_id of no existing chatroom fails with
\* NotFound and a malformed one with InvalidRequest; either way the request
\* ends there, the message collection is unchanged and no delivery attempt is
\* made, whatever connections are subscribed under that room_id.
C8_UnknownRoomRejected ==
    [][/\ \A t \in Threads : GoesOn(t, "send") => ~NoSuchRoom(req'[t].room)
       /\ (AnsweredAtOnce("send") /\ NoSuchRoom(done'.room)) =>
            /\ done'.status = IF done'.room = BadStr THEN 400 ELSE 404
            /\ UNCHANGED <<message, tasks, attempts>>]_vars

\* reached: NotFound for a room id that a connection is subscribed under
C8_Witness ==
    /\ done.op = "send" /\ done.status = 404
    /\ NoSuchRoom(done.room)
    /\ get(active_connections, done.room) # <<>>
    /\ message = <<>> /\ tasks = {} /\ attempts = {}

\* the message document a delivery's envelope speaks of is in the collection
Recorded(msgs, x) ==
    \E i \in DOMAIN msgs :
        /\ str(msgs[i]._id) = x.data.payload.id
        /\ msgs[i].room_id = x.data.payload.room_id
        /\ msgs[i].sender_id = x.data.payload.sender_id
        /\ msgs[i].content = x.data.payload.content

\* C9: every delivery attempt is of a message already recorded in the message
\* collection, and a send_message whose create_document fails ends right there:
\* it schedules and makes no delivery.
C9_FanOutOnlyAfterPersist ==
    [][/\ \A x \in tasks' \cup attempts' : Recorded(message', x)
       /\ \A t \in Threads :
            (req[t].pc = "persist" /\ req'[t] # req[t] /\ message' = message) =>
               /\ ~Busy(t)'
               /\ done'.op = "send" /\ done'.status = 500 /\ done'.msg_id = InvalidId
               /\ UNCHANGED <<tasks, attempts>>]_vars

\* reached: persistence failed for a room that has a subscriber, nothing went out
C9_Witness ==
    /\ done.op = "send" /\ done.status = 500 /\ done.msg_id = InvalidId
    /\ ~NoSuchRoom(done.room)
    /\ get(active_connections, done.room) # <<>>
    /\ message = <<>> /\ tasks = {} /\ attempts = {}

\* C10: create_direct_chat(A, A), create_group_chat(name, []) and send_message
\* with a malformed room id are each rejected as InvalidRequest (none of them
\* goes on past its first step), and every request so rejected leaves the
\* chatroom collection, the message collection and the Registry unchanged and
\* schedules or makes no delivery.
InvalidInput(r) ==
    \/ r.op = "direct" /\ r.a = r.b
    \/ r.op = "group" /\ r.members = <<>>
    \/ r.op = "send" /\ r.room = BadStr
NoSideEffects == UNCHANGED <<chatroom, message, nextId, active_connections, tasks, attempts>>
C10_InvalidRequestNoEffect ==
    [][/\ \A t \in Threads : (~Busy(t) /\ Busy(t)') => ~InvalidInput(req'[t])
       /\ (req' = req /\ done' # done /\ InvalidInput(done')) => done'.status = 400
       /\ (done' # done /\ done'.status = 400) => NoSideEffects]_vars

\* reached: a malformed room id was rejected while sockets were registered and
\* a message was on record
C10_Witness ==
    /\ done.op = "send" /\ done.status = 400 /\ done.room = BadStr
    /\ active_connections # <<>>
    /\ message # <<>>

\* how many times websocket c is listed under room_id
Listed(ac, room_id, c) == Cardinality({i \in DOMAIN get(ac, room_id) : get(ac, room_id)[i] = c})

\* C11: after any sequence of connect and disconnect calls every room_id key
\* of the Registry maps to a non-empty list, and a disconnect of the only
\* subscriber of a room removes the room's key, so the room has no subscriber
\* and is absent from the keys.
C11_NoEmptyRoomEntry ==
    [][/\ \A k \in DOMAIN active_connections' : active_connections'[k] # <<>>
       /\ \A c \in Conns, r \in IdStrs :
            (manager_disconnect(r, c) /\ get(active_connections, r) = <<c>>) =>
               /\ r \notin DOMAIN active_connections'
               /\ Subscribers(active_connections', r) = {}]_vars

\* reached: a websocket that had been subscribed was unsubscribed from the room
\* named in the call, which has left the keys while another room keeps its entry
C11_Witness ==
    /\ done.op = "disconnect"
    /\ ws[done.a].pc = "open"
    /\ ~Registered(active_connections, done.a)
    /\ done.room \notin DOMAIN active_connections
    /\ active_connections # <<>>

\* C12: connect for a websocket already listed under the same room leaves the
\* Registry unchanged, so the websocket is listed there exactly once, one
\* publish schedules one delivery to it and one disconnect removes it.
C12_SubscribeIdempotent ==
    [][/\ \A c \in Conns : \A r \in WsRooms(c) :
            (manager_connect(r, c) /\ c \in Subscribers(active_connections, r)) =>
               active_connections' = active_connections
       /\ \A c \in Conns, r \in IdStrs :
            /\ Listed(active_connections', r, c) <= 1
            /\ manager_broadcast_to_room(r) =>
                 Cardinality({x \in tasks' : x.ws = c}) = Listed(active_connections, r, c)
            /\ (manager_disconnect(r, c) /\ c \in Subscribers(active_connections, r)) =>
                 c \notin Subscribers(active_connections', r)]_vars

\* C13: disconnect for a websocket that is not listed under room_id (after the
\* room's last subscriber has left, for a room with no entry, or for a room
\* others are subscribed to) returns without raising and leaves the Registry,
\* keys and lists, as it was.
C13_UnsubscribeAbsentNoOp ==
    [][\A c \in Conns, r \in IdStrs :
         (manager_disconnect(r, c) /\ c \notin Subscribers(active_connections, r)) =>
            /\ done'.status = 200
            /\ active_connections' = active_connections]_vars

\* reached: a disconnect was called for a websocket that was never subscribed,
\* on a room another websocket is subscribed to, which is still listed
C13_Witness ==
    /\ done.op = "disconnect" /\ done.status = 200
    /\ ws[done.a].pc = "new"
    /\ get(active_connections, done.room) # <<>>

\* C14: in no reachable state are two writes to the same connection's transport
\* in progress at once, be they fan-out deliveries or the connection's echo.
C14_WritesSerialized == \A c \in Conns : Writing(c) <= 1

\* C15: once a connection has left Open (here: its client is gone and its
\* endpoint coroutine has ended), no write to its transport is attempted, not
\* even for a delivery a publish scheduled before that.
C15_NoSendAfterOpen ==
    [][\A x \in tasks :
         (x.st = "scheduled" /\ x \notin tasks') => ws[x.ws].pc # "closed"]_vars

\* C16: the recipients of one publish are exactly the connections listed under
\* the room when broadcast_to_room takes its copy of the list; no other step
\* adds a recipient or takes one away before its attempt, and the publish
\* leaves the Registry unchanged.
C16_PublishSnapshot ==
    [][/\ \A t \in Threads : Publishes(t) =>
            /\ {x.ws : x \in tasks' \ tasks} = Subscribers(active_connections, req[t].room)
            /\ active_connections' = active_connections
       /\ (\A t \in Threads : ~Publishes(t)) =>
            /\ \A x \in tasks' \ tasks : \E y \in tasks : y.ws = x.ws /\ y.data = x.data
            /\ \A x \in tasks \ tasks' :
                 \E y \in tasks' \cup attempts' : y.ws = x.ws /\ y.data = x.data]_vars

\* C19: every delivery, scheduled or made, of a "message" envelope goes to a
\* connection registered under the envelope's room_id, which is the one
\* room_id the connection gave when it opened; no connection is listed under
\* any other room.
C19_RoomIsolation ==
    /\ \A x \in tasks \cup attempts : x.data.payload.room_id = ws[x.ws].room
    /\ \A k \in DOMAIN active_connections :
          \A c \in Subscribers(active_connections, k) : ws[c].room = k

\* reached: a message of room 1 was written to c1 while c2, live and subscribed
\* to room 2, has no delivery
C19_Witness ==
    /\ \E x \in attempts : x.ws = "c1" /\ x.ok /\ x.data.payload.room_id = str(1)
    /\ "c2" \in Subscribers(active_connections, str(2))
    /\ ws["c2"].pc = "recv" /\ ws["c2"].peer = "open"
    /\ \A x \in tasks \cup attempts : x.ws # "c2"

\* C20: a text received on connection c is answered by the write of an "echo"
\* envelope with that text on c itself; the receive and the echo change no
\* other connection's writes, schedule or make no delivery and add no message
\* document, and no delivery ever carries anything but a "message" envelope.
C20_InboundTextOnlyEchoed ==
    [][/\ \A c \in Conns :
            /\ (ws[c].pc = "recv" /\ ws'[c].pc = "echo") =>
                 /\ EchoEnvelope(ws'[c].text) \in Writes(c)'
                 /\ \A d \in Conns \ {c} : Writes(d)' = Writes(d)
                 /\ UNCHANGED <<message, tasks, attempts>>
            /\ (ws[c].pc = "echo" /\ ws'[c].pc # "echo") =>
                 /\ \A d \in Conns \ {c} : Writes(d)' = Writes(d)
                 /\ UNCHANGED <<message, tasks, attempts>>
       /\ \A x \in tasks' \cup attempts' : x.data.type = "message"]_vars

\* reached: c1's text is being echoed while c2, live, is subscribed to the same
\* room: nothing is on its way to c2 and no message is on record
C20_Witness ==
    /\ ws["c1"].pc = "echo" /\ ws["c1"].text \in Texts
    /\ "c2" \in Subscribers(active_connections, ws["c1"].room)
    /\ ws["c2"].pc = "recv" /\ ws["c2"].peer = "open"
    /\ Writes("c2") = {}
    /\ tasks = {} /\ attempts = {} /\ message = <<>>

\* C17: for every room and every integer limit, get_messages returns at most
\* min(limit, 200) messages (none for a limit below zero), all of that room, no
\* message left out being newer than one returned, in ascending order of
\* creation.
C17_ListMessages ==
    [][\A t \in Threads, r \in IdStrs, n \in Limits :
         get_messages(t, r, n) =>
            LET out == done'.messages
                ids == {out[i].id : i \in DOMAIN out}
            IN  /\ Len(out) <= (IF n < 0 THEN 0 ELSE Min(n, HardMax))
                /\ \A i \in DOMAIN out : out[i].room_id = r
                /\ \A i, j \in DOMAIN out : i < j => out[i].created_at <= out[j].created_at
                /\ \A k \in DOMAIN message :
                     (message[k].room_id = r /\ str(message[k]._id) \notin ids) =>
                        \A i \in DOMAIN out : message[k].created_at <= out[i].created_at]_vars

\* C18: create_group_chat with a non-empty member_ids and no admin_ids, unless
\* the store fails the insert, adds exactly one document to the chatroom
\* collection: of type group, with exactly the given members and no admins,
\* whose id it returns; with an empty member_ids it is rejected as
\* InvalidRequest and adds nothing.
C18_GroupCreate ==
    [][\A t \in Threads, m \in MemberLists, a \in AdminLists :
         create_group_chat(t, m, a) =>
            /\ m = <<>> => (done'.status = 400 /\ chatroom' = chatroom)
            /\ m # <<>> => done'.status \in {200, 500}
            /\ done'.status = 500 => chatroom' = chatroom
            /\ (done'.status = 200 /\ a = None) =>
                 /\ Len(chatroom') = Len(chatroom) + 1
                 /\ SubSeq(chatroom', 1, Len(chatroom)) = chatroom
                 /\ chatroom'[Len(chatroom')].type = "group"
                 /\ chatroom'[Len(chatroom')].members = m
                 /\ chatroom'[Len(chatroom')].admins = <<>>
                 /\ done'.ret = str(chatroom'[Len(chatroom')]._id)]_vars

\* reached: a group of two members was created without admin_ids
C18_Witness ==
    /\ done.op = "group" /\ done.status = 200 /\ done.admins = None
    /\ \E i \in DOMAIN chatroom :
          /\ str(chatroom[i]._id) = done.ret
          /\ chatroom[i].type = "group"
          /\ chatroom[i].members = <<"u1", "u2">>
          /\ chatroom[i].admins = <<>>

====
